---------------------------- MODULE Spec2Model ----------------------------
(***************************************************************************)
(* Model of src/main.cpp: the frame loop of the interactive N-body         *)
(* simulation.  One loop iteration (a tick) is four consecutive steps,     *)
(* tracked by pc:                                                          *)
(*     input       lines 102-132  pointer/button handling, reset, spawn    *)
(*     accumulate  lines 134-154  pairwise collision + gravity into acc    *)
(*     integrate   lines 158-160  Body::update and acc[i] = {}             *)
(*     cull        lines 180-183  std::erase_if on bodies                  *)
(*                                                                         *)
(* Numbers.  The program computes in 32-bit floats.  Here positions,       *)
(* velocities, accelerations, masses and radii are whole numbers (pixels,  *)
(* pixels/s, ...) and every quotient is rounded toward zero.  The bias     *)
(* DIST_EPS = 1e-4 that line 140 adds to both components of xrel is kept   *)
(* exactly wherever it can decide a comparison: dist_sqr is carried as     *)
(* whole + frac * DIST_EPS^2, so the test of line 142 is decided exactly.  *)
(* Drawing (lines 156-157, 162-178) changes no state and is left out, as   *)
(* are the colour of a body and the unused sys_density.                    *)
(***************************************************************************)
EXTENDS Integers, Sequences, FiniteSets, TLC

VARIABLES
    bodies,           \* std::vector<Body> bodies               (line 82)
    acc,              \* std::vector<Vector2> acc               (line 85)
    new_body,         \* std::optional<Body>: << >> or <<body>>  (line 86)
    reset_btn_state,  \* NONE / HOVER / DOWN                    (line 99)
    prev_down,        \* raylib: left button state in the previous frame
    mouse_pos,        \* pointer sampled by this tick           (line 102)
    dt,               \* frame time sampled by this tick        (line 134)
    hit,              \* ordered pairs that entered the branch of line 142
    gesture,          \* history: the pointer samples of the spawn gesture
    pc,               \* position in the frame loop
    ticks             \* number of completed loop iterations

vars == <<bodies, acc, new_body, reset_btn_state, prev_down, mouse_pos, dt,
          hit, gesture, pc, ticks>>

---------------------------------------------------------------------------
(* Program constants *)

GRAVITY == 300

\* 1 / DIST_EPS
EPS_INV == 10000

COLL_EPS == 1

WIDTH == 1000

HEIGHT == 600

SOLAR_MASS == 10000

SPAWN_MASS == 10

SPAWN_RADIUS == 20

\* font size passed to MeasureTextEx; raylib returns it as the text height
RESET_FONT_SIZE == 20

\* width MeasureTextEx reports for "reset system" (depends on the font)
RESET_TEXT_WIDTH == 130

(* Bounds of the exploration *)

\* loop iterations explored
MaxTicks == 5

\* stands for an acceleration too large for the number range (see GravAcc)
BIG == 10000000

\* frame times GetFrameTime returns: 0 (first frame, paused clock) or 2 s
Dts == {0, 2}

---------------------------------------------------------------------------
(* Vector2 and rounding helpers *)

Zero2 == <<0, 0>>

VAdd(a, b) == <<a[1] + b[1], a[2] + b[2]>>

VSub(a, b) == <<a[1] - b[1], a[2] - b[2]>>

VScale(a, k) == <<a[1] * k, a[2] * k>>

\* quotient rounded toward zero, b > 0
TruncDiv(a, b) == IF a >= 0 THEN a \div b ELSE -((-a) \div b)

VTruncDiv(a, b) == <<TruncDiv(a[1], b), TruncDiv(a[2], b)>>

RECURSIVE MulDivMod(_, _, _)
\* <<quotient, remainder>> of a * b by c, for a, b >= 0 and c > 0, computed
\* by doubling so that no intermediate value leaves the 32-bit range
MulDivMod(a, b, c) ==
    IF a = 0 THEN <<0, 0>>
    ELSE LET h == MulDivMod(a \div 2, b, c)
             carry2 == h[2] >= c - h[2]
             q2 == 2 * h[1] + (IF carry2 THEN 1 ELSE 0)
             r2 == IF carry2 THEN h[2] - (c - h[2]) ELSE 2 * h[2]
             bq == IF a % 2 = 1 THEN b \div c ELSE 0
             br == IF a % 2 = 1 THEN b % c ELSE 0
             carry == r2 >= c - br
         IN <<q2 + bq + (IF carry THEN 1 ELSE 0),
              IF carry THEN r2 - (c - br) ELSE r2 + br>>

\* (a * b + e) / c rounded toward zero, for b >= e >= 0 and c > e
MulAddDiv(a, b, e, c) ==
    LET qr == MulDivMod(IF a >= 0 THEN a ELSE -a, b, c)
    IN IF a >= 0 THEN qr[1] + (qr[2] + e) \div c
       ELSE -(IF qr[2] >= e THEN qr[1] ELSE qr[1] - 1)

RECURSIVE ISqrtIn(_, _, _)
ISqrtIn(n, lo, hi) ==
    IF lo >= hi THEN lo
    ELSE LET mid == (lo + hi + 1) \div 2
         IN IF mid * mid <= n THEN ISqrtIn(n, mid, hi) ELSE ISqrtIn(n, lo, mid - 1)

\* std::sqrt rounded down, 0 <= n
ISqrt(n) == ISqrtIn(n, 0, IF n < 46340 THEN n ELSE 46340)

RECURSIVE Pow(_, _)
Pow(b, e) == IF e = 0 THEN 1 ELSE b * Pow(b, e - 1)

Zeros(n) == [i \in 1..n |-> Zero2]

---------------------------------------------------------------------------
(* get_random_system, lines 39-77.  The random draws are parameters: n is  *)
(* the planet count (line 43) and draws[k] holds the k-th planet's draw of *)
(* distance_dist (inc), of angle_dist as the unit vector Vector2Rotate     *)
(* gives for it (dir, one of the four axis directions) and of rad_dist     *)
(* (rad).                                                                  *)

Body(mass, radius, pos, vel) ==
    [mass |-> mass, radius |-> radius, pos |-> pos, vel |-> vel]

max_rad == (IF WIDTH < HEIGHT THEN WIDTH ELSE HEIGHT) \div 2

mean_distance(n) == TruncDiv(max_rad, n + 1)

\* mean_distance * (0.3^n - 0.6^n + 0.5)
sun_radius(n) ==
    TruncDiv(mean_distance(n) * (Pow(3, n) - Pow(6, n) + 5 * Pow(10, n - 1)),
             Pow(10, n))

center == <<WIDTH \div 2, HEIGHT \div 2>>

\* Vector2Rotate(v, PI / 2)
Rotate90(v) == <<-v[2], v[1]>>

RECURSIVE Distance(_, _)
\* value of the running sum `distance` after k planets
Distance(draws, k) == IF k = 0 THEN 0 ELSE Distance(draws, k - 1) + draws[k].inc

\* body.mass = radius^2 / density with density = SOLAR_MASS / sun_radius^2
PlanetMass(n, rad) ==
    TruncDiv(rad * rad * sun_radius(n) * sun_radius(n), SOLAR_MASS)

Planet(n, draws, k) ==
    LET distance == Distance(draws, k)
        pos_dir == draws[k].dir
    IN Body(PlanetMass(n, draws[k].rad), draws[k].rad,
            VAdd(center, VScale(pos_dir, distance)),
            VScale(Rotate90(pos_dir),
                   ISqrt(TruncDiv(GRAVITY * SOLAR_MASS, distance))))

get_random_system(n, draws) ==
    [k \in 1..(n + 1) |->
        IF k = 1 THEN Body(SOLAR_MASS, sun_radius(n), center, Zero2)
        ELSE Planet(n, draws, k - 1)]

Draw(inc, dir, rad) == [inc |-> inc, dir |-> dir, rad |-> rad]

\* two planets on ordinary orbits, on opposite sides of the sun
DrawsOrbit == <<Draw(75, <<1, 0>>, 7), Draw(117, <<-1, 0>>, 10)>>

\* four planets of radius 10 in a row, 18, 19 and 21 apart
DrawsRow == <<Draw(192, <<1, 0>>, 10), Draw(18, <<1, 0>>, 10),
              Draw(19, <<1, 0>>, 10), Draw(21, <<1, 0>>, 10)>>

\* two planets of radius 10 at x = WIDTH + 10 and x = WIDTH + 11
DrawsEdge == <<Draw(510, <<1, 0>>, 10), Draw(1, <<1, 0>>, 10)>>

\* two planets, the outer one with a draw of rad_dist (mean 10.5, deviation
\* 2.1 at this distance) far in the lower tail: the distribution is normal
\* and line 69 takes the draw as it comes
DrawsTail == <<Draw(75, <<0, 1>>, 7), Draw(117, <<0, 1>>, -5)>>

\* the outcomes of get_random_system(e, 2, 15) that are explored
Systems == {get_random_system(2, DrawsOrbit), get_random_system(4, DrawsRow),
            get_random_system(2, DrawsEdge), get_random_system(2, DrawsTail)}

---------------------------------------------------------------------------
(* The reset button, lines 91-98 *)

margin == <<WIDTH \div 100, HEIGHT \div 100>>

reset_size == <<RESET_TEXT_WIDTH, RESET_FONT_SIZE>>

reset_inner_margin == VTruncDiv(reset_size, 10)

reset_btn_size == VAdd(reset_size, VScale(reset_inner_margin, 2))

reset_btn == [x |-> WIDTH - reset_btn_size[1] - margin[1],
              y |-> HEIGHT - reset_btn_size[2] - margin[2],
              width |-> reset_btn_size[1], height |-> reset_btn_size[2]]

\* raylib CheckCollisionPointRec
CheckCollisionPointRec(point, rec) ==
    /\ point[1] >= rec.x
    /\ point[1] < rec.x + rec.width
    /\ point[2] >= rec.y
    /\ point[2] < rec.y + rec.height

\* pointer positions GetMousePosition returns: on the reset button, on the
\* centre of the window, and SPAWN_RADIUS + sun_radius(2) - COLL_EPS to the
\* right of the centre
MousePts == {<<900, 580>>, <<500, 300>>, <<542, 300>>}

---------------------------------------------------------------------------
(* Force accumulation, lines 135-154 *)

\* other.pos - body.pos; xrel (line 140) is this plus DIST_EPS per component
Diff(body, other) == VSub(other.pos, body.pos)

\* dist_sqr (line 141) of xrel = d + (DIST_EPS, DIST_EPS), exactly:
\* whole + frac * DIST_EPS^2
DistSqr(d) == [whole |-> d[1] * d[1] + d[2] * d[2],
               frac |-> 2 * EPS_INV * (d[1] + d[2]) + 2]

\* std::sqrt(dist_sqr) < bound, decided exactly for a whole-number bound
SqrtLess(dist_sqr, bound) ==
    /\ bound > 0
    /\ dist_sqr.whole - bound * bound < -(dist_sqr.frac \div (EPS_INV * EPS_INV))

\* variant of Collides: COLL_EPS not subtracted
CollidesTouching(body, other) ==
    SqrtLess(DistSqr(Diff(body, other)), body.radius + other.radius)

\* the condition of line 142
Collides(body, other) ==
    SqrtLess(DistSqr(Diff(body, other)), body.radius + other.radius - COLL_EPS)

\* v * idt with idt = dt ? 1.0f / dt : 0.0f (line 145)
MulIdt(v, t) == IF t # 0 THEN TruncDiv(v, t) ELSE 0

\* coll_acc, lines 143-147.  For coincident bodies xrel = (DIST_EPS, DIST_EPS)
\* and DIST_EPS cancels: coll_acc = -(vrel.x + vrel.y) * other.mass / m_tot * idt
CollAcc(body, other, t) ==
    LET d == Diff(body, other)
        vrel == VSub(body.vel, other.vel)
        m_tot == body.mass + other.mass
        neg_dot == -(vrel[1] * d[1] + vrel[2] * d[2])
        comp(k) == MulIdt(TruncDiv(TruncDiv(d[k] * 2 * other.mass, m_tot) * neg_dot,
                                   DistSqr(d).whole), t)
        same == MulIdt(TruncDiv(-(vrel[1] + vrel[2]) * other.mass, m_tot), t)
    IN IF d = Zero2 THEN <<same, same>> ELSE <<comp(1), comp(2)>>

\* grav_acc, line 151.  The numerator keeps the term DIST_EPS * GRAVITY * mass.
\* For coincident bodies the value is GRAVITY * mass / (2^1.5 * DIST_EPS^2),
\* above 10^10 for every mass >= 1: BIG stands for it.
GravAcc(body, other) ==
    LET d == Diff(body, other)
        gm == GRAVITY * other.mass
        den == DistSqr(d).whole * ISqrt(DistSqr(d).whole)
        comp(k) == MulAddDiv(d[k], gm, TruncDiv(gm, EPS_INV), den)
    IN IF d = Zero2 THEN <<BIG, BIG>> ELSE <<comp(1), comp(2)>>

\* variant of Interacts: a body is paired with itself too
InteractsAlways(i, j) == TRUE

\* the guard of lines 137-139
Interacts(i, j) == i # j

\* variant of PairAcc: a pair out of collision range is skipped
PairAccNear(body, other, t) ==
    IF Collides(body, other)
    THEN VAdd(CollAcc(body, other, t), GravAcc(body, other))
    ELSE Zero2

\* what one iteration of the inner loop adds to acc[i]
PairAcc(body, other, t) ==
    VAdd(IF Collides(body, other) THEN CollAcc(body, other, t) ELSE Zero2,
         GravAcc(body, other))

RECURSIVE InnerLoop(_, _, _, _)
\* sum the inner loop adds to acc[i] over j = 1..n
InnerLoop(bs, i, n, t) ==
    IF n = 0 THEN Zero2
    ELSE VAdd(InnerLoop(bs, i, n - 1, t),
              IF Interacts(i, n) THEN PairAcc(bs[i], bs[n], t) ELSE Zero2)

\* the ordered pairs for which the branch of line 142 is taken
Hits(bs) == {p \in (1..Len(bs)) \X (1..Len(bs)) :
                Interacts(p[1], p[2]) /\ Collides(bs[p[1]], bs[p[2]])}

---------------------------------------------------------------------------
(* Integration and culling *)

\* variant of update: the acceleration is not scaled by dt
updateUnscaled(body, a, t) ==
    LET vel == VAdd(body.vel, a)
    IN [body EXCEPT !.vel = vel, !.pos = VAdd(body.pos, VScale(vel, t))]

\* variant of update: explicit Euler, the position advances by the old velocity
updateExplicit(body, a, t) ==
    [body EXCEPT !.vel = VAdd(body.vel, VScale(a, t)),
                 !.pos = VAdd(body.pos, VScale(body.vel, t))]

\* Body::update, lines 28-31
update(body, a, t) ==
    LET vel == VAdd(body.vel, VScale(a, t))
    IN [body EXCEPT !.vel = vel, !.pos = VAdd(body.pos, VScale(vel, t))]

\* variant of OutOfBounds: the right edge itself counts as outside
OutOfBoundsInclusive(b) ==
    \/ b.pos[1] >= WIDTH + b.radius
    \/ b.pos[1] < -b.radius
    \/ b.pos[2] > HEIGHT + b.radius
    \/ b.pos[2] < -b.radius

\* the predicate of std::erase_if, lines 180-183
OutOfBounds(b) ==
    \/ b.pos[1] > WIDTH + b.radius
    \/ b.pos[1] < -b.radius
    \/ b.pos[2] > HEIGHT + b.radius
    \/ b.pos[2] < -b.radius

InBounds(b) == ~OutOfBounds(b)

---------------------------------------------------------------------------
(* Spawn helpers *)

has_value(opt) == Len(opt) = 1

\* lines 111-117
SpawnBody(p) == Body(SPAWN_MASS, SPAWN_RADIUS, p, Zero2)

\* variant of Aimed: the pointer itself taken as the velocity
AimedAbsolute(body, p) == [body EXCEPT !.vel = p]

\* variant of Aimed: the pending body is dragged along with the pointer
AimedDragged(body, p) == [body EXCEPT !.vel = VSub(p, body.pos), !.pos = p]

\* line 107
Aimed(body, p) == [body EXCEPT !.vel = VSub(p, body.pos)]

\* line 103
HoverState(p) == IF CheckCollisionPointRec(p, reset_btn) THEN "HOVER" ELSE "NONE"

---------------------------------------------------------------------------
(* The program *)

Init ==
    /\ bodies \in Systems
    /\ acc = Zeros(Len(bodies))
    /\ new_body = << >>
    /\ reset_btn_state = "NONE"
    /\ prev_down = FALSE
    /\ mouse_pos = Zero2
    /\ dt = 0
    /\ hit = {}
    /\ gesture = << >>
    /\ pc = "input"
    /\ ticks = 0

\* lines 101-103 and the raylib button state: the tick samples pointer p and
\* button state down; IsMouseButtonReleased is prev_down /\ ~down
Sample(p, down) ==
    /\ pc = "input"
    /\ ticks < MaxTicks
    /\ mouse_pos' = p
    /\ prev_down' = down
    /\ UNCHANGED <<dt, hit, ticks>>

\* lines 105-107: button held while a spawn is pending
AimSpawn(p) ==
    /\ Sample(p, TRUE)
    /\ has_value(new_body)
    /\ new_body' = <<Aimed(new_body[1], p)>>
    /\ reset_btn_state' = HoverState(p)
    /\ gesture' = <<[gesture[1] EXCEPT !.last = p, !.dragged = TRUE]>>
    /\ pc' = "accumulate"
    /\ UNCHANGED <<bodies, acc>>

\* variant of PressReset: the reset fires as soon as the button is held
PressResetFires(p) ==
    /\ Sample(p, TRUE)
    /\ ~has_value(new_body)
    /\ HoverState(p) = "HOVER"
    /\ bodies' \in Systems
    /\ acc' = Zeros(Len(bodies'))
    /\ reset_btn_state' = "DOWN"
    /\ pc' = "accumulate"
    /\ UNCHANGED <<new_body, gesture>>

\* lines 108-109: button held over the reset button, nothing pending
PressReset(p) ==
    /\ Sample(p, TRUE)
    /\ ~has_value(new_body)
    /\ HoverState(p) = "HOVER"
    /\ reset_btn_state' = "DOWN"
    /\ pc' = "accumulate"
    /\ UNCHANGED <<bodies, acc, new_body, gesture>>

\* lines 110-118: button held elsewhere, nothing pending
StartSpawn(p) ==
    /\ Sample(p, TRUE)
    /\ ~has_value(new_body)
    /\ HoverState(p) # "HOVER"
    /\ new_body' = <<SpawnBody(p)>>
    /\ reset_btn_state' = HoverState(p)
    /\ gesture' = <<[start |-> p, last |-> p, dragged |-> FALSE, done |-> FALSE]>>
    /\ pc' = "accumulate"
    /\ UNCHANGED <<bodies, acc>>

\* variant of ResetSystem: the accumulator sequence is not resized
ResetSystemKeepAcc(p) ==
    /\ Sample(p, FALSE)
    /\ prev_down
    /\ HoverState(p) = "HOVER"
    /\ bodies' \in Systems
    /\ reset_btn_state' = "NONE"
    /\ pc' = "accumulate"
    /\ UNCHANGED <<acc, new_body, gesture>>

\* lines 119-125: button released over the reset button
ResetSystem(p) ==
    /\ Sample(p, FALSE)
    /\ prev_down
    /\ HoverState(p) = "HOVER"
    /\ bodies' \in Systems
    /\ acc' = Zeros(Len(bodies'))
    /\ reset_btn_state' = "NONE"
    /\ pc' = "accumulate"
    /\ UNCHANGED <<new_body, gesture>>

\* variant of CommitSpawn: the committed body joins after the accumulation
CommitSpawnLate(p) ==
    /\ Sample(p, FALSE)
    /\ prev_down
    /\ HoverState(p) # "HOVER"
    /\ has_value(new_body)
    /\ bodies' = Append(bodies, new_body[1])
    /\ acc' = Append(acc, Zero2)
    /\ new_body' = << >>
    /\ reset_btn_state' = HoverState(p)
    /\ gesture' = <<[gesture[1] EXCEPT !.done = TRUE]>>
    /\ pc' = "integrate"

\* lines 126-131: button released elsewhere with a spawn pending
CommitSpawn(p) ==
    /\ Sample(p, FALSE)
    /\ prev_down
    /\ HoverState(p) # "HOVER"
    /\ has_value(new_body)
    /\ bodies' = Append(bodies, new_body[1])
    /\ acc' = Append(acc, Zero2)
    /\ new_body' = << >>
    /\ reset_btn_state' = HoverState(p)
    /\ gesture' = <<[gesture[1] EXCEPT !.done = TRUE]>>
    /\ pc' = "accumulate"

\* variant of AssertFail: no check, the empty optional is read as a body
AssertFailUnchecked(p) ==
    /\ Sample(p, FALSE)
    /\ prev_down
    /\ HoverState(p) # "HOVER"
    /\ ~has_value(new_body)
    /\ bodies' = Append(bodies, SpawnBody(Zero2))
    /\ acc' = Append(acc, Zero2)
    /\ reset_btn_state' = HoverState(p)
    /\ pc' = "accumulate"
    /\ UNCHANGED <<new_body, gesture>>

\* line 127 (line 128 with NDEBUG: value() throws std::bad_optional_access,
\* which nothing catches): released elsewhere with nothing pending
AssertFail(p) ==
    /\ Sample(p, FALSE)
    /\ prev_down
    /\ HoverState(p) # "HOVER"
    /\ ~has_value(new_body)
    /\ reset_btn_state' = HoverState(p)
    /\ pc' = "aborted"
    /\ UNCHANGED <<bodies, acc, new_body, gesture>>

\* neither branch of lines 105 and 119: button up and not just released
NoButton(p) ==
    /\ Sample(p, FALSE)
    /\ ~prev_down
    /\ reset_btn_state' = HoverState(p)
    /\ pc' = "accumulate"
    /\ UNCHANGED <<bodies, acc, new_body, gesture>>

\* lines 134-154
Accumulate(t) ==
    /\ pc = "accumulate"
    /\ dt' = t
    /\ acc' = [i \in 1..Len(acc) |->
                 IF i <= Len(bodies)
                 THEN VAdd(acc[i], InnerLoop(bodies, i, Len(bodies), t))
                 ELSE acc[i]]
    /\ hit' = Hits(bodies)
    /\ pc' = "integrate"
    /\ UNCHANGED <<bodies, new_body, reset_btn_state, prev_down, mouse_pos,
                   gesture, ticks>>

\* variant of Integrate: the slots are not cleared after the update
IntegrateKeep ==
    /\ pc = "integrate"
    /\ bodies' = [i \in 1..Len(bodies) |-> update(bodies[i], acc[i], dt)]
    /\ pc' = "cull"
    /\ UNCHANGED <<acc, new_body, reset_btn_state, prev_down, mouse_pos, dt, hit,
                   gesture, ticks>>

\* lines 158-160
Integrate ==
    /\ pc = "integrate"
    /\ bodies' = [i \in 1..Len(bodies) |-> update(bodies[i], acc[i], dt)]
    /\ acc' = [i \in 1..Len(acc) |-> IF i <= Len(bodies) THEN Zero2 ELSE acc[i]]
    /\ pc' = "cull"
    /\ UNCHANGED <<new_body, reset_btn_state, prev_down, mouse_pos, dt, hit,
                   gesture, ticks>>

\* lines 180-184: erase_if, then the locals of the iteration go out of scope
Cull ==
    /\ pc = "cull"
    /\ bodies' = SelectSeq(bodies, InBounds)
    /\ mouse_pos' = Zero2
    /\ dt' = 0
    /\ hit' = {}
    /\ gesture' = IF has_value(new_body) THEN gesture ELSE << >>
    /\ ticks' = ticks + 1
    /\ pc' = "input"
    /\ UNCHANGED <<acc, new_body, reset_btn_state, prev_down>>

\* lines 101 and 186-187: WindowShouldClose
Close ==
    /\ pc = "input"
    /\ pc' = "closed"
    /\ UNCHANGED <<bodies, acc, new_body, reset_btn_state, prev_down, mouse_pos,
                   dt, hit, gesture, ticks>>

Next ==
    \/ \E p \in MousePts : AimSpawn(p)
    \/ \E p \in MousePts : PressReset(p)
    \/ \E p \in MousePts : StartSpawn(p)
    \/ \E p \in MousePts : ResetSystem(p)
    \/ \E p \in MousePts : CommitSpawn(p)
    \/ \E p \in MousePts : AssertFail(p)
    \/ \E p \in MousePts : NoButton(p)
    \/ \E t \in Dts : Accumulate(t)
    \/ Integrate
    \/ Cull
    \/ Close

Spec == Init /\ [][Next]_vars

---------------------------------------------------------------------------
(* Properties *)

\* the step is the input handling of a tick that observes a release
\* (IsMouseButtonReleased) with the pointer off / on the reset button
ReleaseStep == pc = "input" /\ pc' # "closed" /\ prev_down /\ ~prev_down'

OffReset(p) == ~CheckCollisionPointRec(p, reset_btn)

\* C1: at every tick boundary the accumulator sequence has the same length
\* as the body sequence (a tick that culls k bodies removes k accumulator
\* slots in that same tick).
C1_SameLength == pc \in {"input", "closed"} => Len(acc) = Len(bodies)

\* C2: a gesture that starts at p, is dragged and is released off the reset
\* button appends, in the tick of the release, exactly one body with position
\* p, the spawn mass and radius and velocity (last drag sample - p), plus one
\* zero accumulator slot, and leaves nothing pending; the ticks in which the
\* button is held append nothing.
C2_GestureCommit ==
    [][/\ (ReleaseStep /\ has_value(new_body) /\ OffReset(mouse_pos'))
            => /\ bodies' = Append(bodies,
                      [mass |-> 10, radius |-> 20, pos |-> gesture[1].start,
                       vel |-> VSub(gesture[1].last, gesture[1].start)])
               /\ acc' = Append(acc, <<0, 0>>)
               /\ new_body' = << >>
       /\ (pc = "input" /\ prev_down' /\ pc' # "closed")
            => bodies' = bodies /\ acc' = acc]_vars

\* C2 witness: the tick of a release that ends a dragged gesture has just
\* committed the body.
C2_Witness ==
    /\ pc = "accumulate"
    /\ has_value(gesture) /\ gesture[1].done /\ gesture[1].dragged
    /\ gesture[1].last # gesture[1].start
    /\ bodies[Len(bodies)].vel = VSub(gesture[1].last, gesture[1].start)

\* C3: every tick that observes a release while a spawn is pending, wherever
\* the pointer is, appends the pending body and a zero accumulator slot and
\* clears the pending slot.
C3_ReleaseAlwaysCommits ==
    [][(ReleaseStep /\ has_value(new_body))
          => /\ new_body' = << >>
             /\ bodies' = Append(bodies, new_body[1])
             /\ acc' = Append(acc, <<0, 0>>)]_vars

\* C4: a release that reaches the commit branch while nothing is pending puts
\* the program in the error state and appends no body and no accumulator slot.
C4_CommitWithoutSpawnIsFatal ==
    [][(ReleaseStep /\ ~has_value(new_body) /\ OffReset(mouse_pos'))
          => pc' = "aborted" /\ bodies' = bodies /\ acc' = acc]_vars

\* C4 witness: the program has aborted on the commit branch.
C4_Witness == pc = "aborted" /\ ~has_value(new_body) /\ OffReset(mouse_pos)

\* C5: a tick that begins with body and accumulator sequences of different
\* lengths ends in the error state instead of running the physics on them.
C5_MismatchIsFatal ==
    [][(pc = "input" /\ pc' # "closed" /\ Len(acc) # Len(bodies))
          => pc' = "aborted"]_vars

\* i-th smallest element of a set of naturals
Nth(S, i) == CHOOSE k \in S : Cardinality({j \in S : j <= k}) = i

\* the body lies within the bounds expanded by its radius, edges included
WithinExpandedBounds(b) ==
    /\ b.pos[1] <= 1000 + b.radius
    /\ b.pos[1] >= 0 - b.radius
    /\ b.pos[2] <= 600 + b.radius
    /\ b.pos[2] >= 0 - b.radius

\* C6: the culling of a tick removes exactly the bodies whose integrated
\* position is strictly outside the bounds expanded by the body's radius;
\* the others are retained unchanged and in their order.
C6_CullExactlyOutside ==
    [][pc = "cull"
          => LET keep == {i \in 1..Len(bodies) : WithinExpandedBounds(bodies[i])}
             IN /\ Len(bodies') = Cardinality(keep)
                /\ \A k \in 1..Len(bodies') : bodies'[k] = bodies[Nth(keep, k)]]_vars

\* C6 witness: a tick has culled a body (the accumulator kept its slot) and
\* retained one that lies exactly on the expanded right edge.
C6_Witness ==
    /\ pc = "input" /\ ticks > 0
    /\ Len(bodies) < Len(acc)
    /\ \E i \in 1..Len(bodies) : bodies[i].pos[1] = 1000 + bodies[i].radius

\* the step creates a pending spawn
SpawnCreated == ~has_value(new_body) /\ has_value(new_body')

\* the pending spawn the claim describes for pointer position p
FreshSpawn(p) == <<[mass |-> 10, radius |-> 20, pos |-> p, vel |-> <<0, 0>>]>>

\* C7: a pending spawn is created only in a tick where the button has just
\* gone from up to down, nothing is pending and the pointer is off the reset
\* button, at the pointer, with mass 10, radius 20 and zero velocity (so a
\* button still held from a press over the reset button starts no spawn).
C7_SpawnOnlyOnPress ==
    [][SpawnCreated
          => /\ pc = "input"
             /\ ~prev_down /\ prev_down'
             /\ OffReset(mouse_pos')
             /\ new_body' = FreshSpawn(mouse_pos')]_vars

RECURSIVE GravityOnly(_, _, _)
\* sum of the gravity terms of the bodies 1..n other than i on body i
GravityOnly(bs, i, n) ==
    IF n = 0 THEN <<0, 0>>
    ELSE VAdd(GravityOnly(bs, i, n - 1),
              IF n # i THEN GravAcc(bs[i], bs[n]) ELSE <<0, 0>>)

\* C8: a tick with dt = 0 reaches no error state and leaves the position and
\* the velocity of every body unchanged, overlapping bodies included; what
\* it accumulated holds no collision term.
C8_ZeroDtChangesNothing ==
    [][/\ (pc = "accumulate" /\ dt' = 0) => (pc' = "integrate" /\ bodies' = bodies)
       /\ (pc = "integrate" /\ dt = 0)
            => /\ pc' = "cull"
               /\ Len(bodies') = Len(bodies)
               /\ \A i \in 1..Len(bodies) :
                     /\ bodies'[i].pos = bodies[i].pos
                     /\ bodies'[i].vel = bodies[i].vel
                     /\ acc[i] = GravityOnly(bodies, i, Len(bodies))]_vars

\* C8 witness: a tick with dt = 0 has integrated overlapping, moving bodies.
C8_Witness ==
    /\ pc = "cull" /\ dt = 0
    /\ \E p \in hit : bodies[p[1]].vel # bodies[p[2]].vel

\* C9: with 0 or 1 body at accumulation time every accumulator slot is zero
\* after the accumulation, and the integration leaves the velocity of a lone
\* body unchanged.
C9_NoSelfInteraction ==
    [][(pc = "integrate" /\ Len(bodies) <= 1)
          => /\ \A i \in 1..Len(acc) : acc[i] = <<0, 0>>
             /\ \A i \in 1..Len(bodies) : bodies'[i].vel = bodies[i].vel]_vars

\* C9 witness: a tick with dt > 0 has integrated a lone body.
C9_Witness == pc = "cull" /\ Len(bodies) = 1 /\ dt > 0

\* separation vector from body i to body j and the collision range of the pair
Sep(i, j) == VSub(bodies[j].pos, bodies[i].pos)

SepSqr(i, j) == Sep(i, j)[1] * Sep(i, j)[1] + Sep(i, j)[2] * Sep(i, j)[2]

Range(i, j) == bodies[i].radius + bodies[j].radius - 1

\* the distance between the centres is strictly less than the range
Closer(i, j) == Range(i, j) > 0 /\ SepSqr(i, j) < Range(i, j) * Range(i, j)

\* the distance of the centres after the bias of 1e-4 per component is
\* strictly less than the range: for whole coordinates the bias decides
\* exactly the pairs whose centres are at the range
BiasedCloser(i, j) ==
    /\ Range(i, j) > 0
    /\ \/ SepSqr(i, j) < Range(i, j) * Range(i, j)
       \/ /\ SepSqr(i, j) = Range(i, j) * Range(i, j)
          /\ Sep(i, j)[1] + Sep(i, j)[2] < 0

RECURSIVE Accumulated(_, _)
\* gravity of every body 1..n other than i on body i, plus the collision
\* term of the pairs recorded in hit
Accumulated(i, n) ==
    IF n = 0 THEN <<0, 0>>
    ELSE VAdd(Accumulated(i, n - 1),
              IF n = i THEN <<0, 0>>
              ELSE VAdd(GravAcc(bodies[i], bodies[n]),
                        IF <<i, n>> \in hit
                        THEN CollAcc(bodies[i], bodies[n], dt) ELSE <<0, 0>>))

\* C10: for every ordered pair (i, j), i # j, the collision impulse is added
\* to acc[i] iff the distance between the bodies is strictly less than
\* radius[i] + radius[j] - 1, and the gravity term is added whatever the
\* distance (so radius 10 bodies exactly 19 apart trigger no impulse).
C10_ImpulseIffCloser ==
    pc = "integrate"
       => \A i \in 1..Len(bodies) :
             /\ acc[i] = Accumulated(i, Len(bodies))
             /\ \A j \in 1..Len(bodies) :
                   i # j => (<<i, j>> \in hit <=> Closer(i, j))

\* C10 amended: the impulse is added iff the distance computed from the
\* separation biased by 1e-4 per component is strictly less than the range;
\* the gravity term is added whatever the distance.
C10_ImpulseIffBiasedCloser ==
    pc = "integrate"
       => \A i \in 1..Len(bodies) :
             /\ acc[i] = Accumulated(i, Len(bodies))
             /\ \A j \in 1..Len(bodies) :
                   i # j => (<<i, j>> \in hit <=> BiasedCloser(i, j))

\* C10 witness: radius 10 bodies 18, 19 and 21 apart have been accumulated;
\* at 19 the impulse went to the body whose separation the bias shortens.
C10_Witness ==
    /\ pc = "integrate"
    /\ \E i, j \in 1..Len(bodies) :
          /\ bodies[i].radius = 10 /\ bodies[j].radius = 10
          /\ Sep(i, j) = <<-19, 0>>
          /\ <<i, j>> \in hit /\ <<j, i>> \notin hit
    /\ \E i, j \in 1..Len(bodies) :
          /\ bodies[i].radius = 10 /\ bodies[j].radius = 10
          /\ Sep(i, j) = <<18, 0>>
          /\ <<i, j>> \in hit /\ <<j, i>> \in hit
    /\ \E i, j \in 1..Len(bodies) :
          /\ bodies[i].radius = 10 /\ bodies[j].radius = 10
          /\ Sep(i, j) = <<21, 0>>
          /\ <<i, j>> \notin hit /\ <<j, i>> \notin hit

\* a spawn has been committed in the current tick; the committed body is the
\* last of the body sequence until the culling of the tick
Committed == has_value(gesture) /\ gesture[1].done

\* the step is the input handling of a tick that resets the system
ResetStep == ReleaseStep /\ ~OffReset(mouse_pos')

\* C11: the phases of a tick run in the order input, accumulation,
\* integration, culling; bodies are removed only by the culling step, which
\* judges the integrated positions; a body committed in a tick is, in that
\* tick, a source and a target of the accumulation, is integrated with what
\* was accumulated for it and is judged by the culling.
C11_PhaseOrder ==
    [][/\ (pc = "input" /\ pc' \notin {"closed", "aborted"}) => pc' = "accumulate"
       /\ pc = "accumulate"
            => /\ pc' = "integrate" /\ bodies' = bodies
               /\ Committed => Len(bodies) >= 1 /\ Len(acc') >= Len(bodies)
       /\ pc = "integrate"
            => /\ pc' = "cull" /\ Len(bodies') = Len(bodies)
               /\ Committed
                    => LET n == Len(bodies)
                       IN /\ \A i \in 1..n : acc[i] = Accumulated(i, n)
                          /\ bodies[n].pos = gesture[1].start
                          /\ bodies'[n].vel = VAdd(bodies[n].vel, VScale(acc[n], dt))
                          /\ bodies'[n].pos = VAdd(bodies[n].pos, VScale(bodies'[n].vel, dt))
       /\ pc = "cull"
            => /\ pc' = "input" /\ ticks' = ticks + 1
               /\ bodies' = SelectSeq(bodies, WithinExpandedBounds)
       /\ (pc # "cull" /\ ~ResetStep)
            => /\ Len(bodies') >= Len(bodies)
               /\ \A i \in 1..Len(bodies) : bodies'[i].radius = bodies[i].radius]_vars

\* C11 witness: the body committed in this tick has been accelerated by the
\* other bodies, moved out of the bounds and is about to be culled.
C11_Witness ==
    /\ pc = "cull" /\ Committed /\ dt > 0
    /\ bodies[Len(bodies)].vel # VSub(gesture[1].last, gesture[1].start)
    /\ ~WithinExpandedBounds(bodies[Len(bodies)])

\* C12: every body of the body sequence has mass > 0 and radius > 0, and no
\* step of a tick changes the mass or the radius of a body that stays in the
\* sequence.
C12_PositiveMassRadius ==
    [][/\ \A i \in 1..Len(bodies') :
             bodies'[i].mass > 0 /\ bodies'[i].radius > 0
       /\ pc \in {"accumulate", "integrate"}
            => /\ Len(bodies') = Len(bodies)
               /\ \A i \in 1..Len(bodies) :
                     /\ bodies'[i].mass = bodies[i].mass
                     /\ bodies'[i].radius = bodies[i].radius]_vars

\* C13: the integration step gives every body the velocity old velocity +
\* acceleration * dt and the position old position + new velocity * dt; no
\* other step of the tick moves a body or changes its velocity.
C13_SemiImplicitEuler ==
    [][/\ pc = "integrate"
            => /\ Len(bodies') = Len(bodies)
               /\ \A i \in 1..Len(bodies) :
                     /\ bodies'[i].vel[1] = bodies[i].vel[1] + acc[i][1] * dt
                     /\ bodies'[i].vel[2] = bodies[i].vel[2] + acc[i][2] * dt
                     /\ bodies'[i].pos[1] = bodies[i].pos[1] + bodies'[i].vel[1] * dt
                     /\ bodies'[i].pos[2] = bodies[i].pos[2] + bodies'[i].vel[2] * dt
       /\ pc = "accumulate" => bodies' = bodies
       /\ pc = "cull"
            => \A k \in 1..Len(bodies') : \E i \in 1..Len(bodies) : bodies'[k] = bodies[i]
       /\ (pc = "input" /\ ~ResetStep)
            => \A i \in 1..Len(bodies) : bodies'[i] = bodies[i]]_vars

\* C13 witness: in the first tick a body of the generated system S has been
\* accelerated and has moved by its new velocity, not by its old one, and
\* stays within the bounds.
C13_Witness ==
    /\ pc = "cull" /\ dt > 0 /\ ticks = 0 /\ ~Committed
    /\ \E S \in Systems : \E i \in 1..Len(bodies) :
          /\ Len(S) = Len(bodies)
          /\ bodies[i].mass = S[i].mass /\ bodies[i].radius = S[i].radius
          /\ bodies[i].vel # S[i].vel
          /\ bodies[i].pos = VAdd(S[i].pos, VScale(bodies[i].vel, dt))
          /\ bodies[i].pos # VAdd(S[i].pos, VScale(S[i].vel, dt))
          /\ WithinExpandedBounds(bodies[i])

\* C14: for every sequence of pointer samples the commit branch (a release
\* observed with the pointer off the reset button) is entered only when a
\* spawn is pending, so the assertion of the branch never fails.
C14_CommitOnlyWhenPending ==
    [][(ReleaseStep /\ OffReset(mouse_pos'))
          => has_value(new_body) /\ pc' # "aborted"]_vars

\* contribution of body j of the snapshot to body i: gravity always, the
\* impulse when the pair is in collision range
Contribution(snap, i, j, t) ==
    VAdd(GravAcc(snap[i], snap[j]),
         IF Collides(snap[i], snap[j]) THEN CollAcc(snap[i], snap[j], t)
         ELSE <<0, 0>>)

RECURSIVE SnapshotFrom(_, _, _, _)
\* two-array design: sum of the contributions of the bodies j..Len(snap)
\* other than i to body i, read from the snapshot snap
SnapshotFrom(snap, i, j, t) ==
    IF j > Len(snap) THEN <<0, 0>>
    ELSE VAdd(IF j # i THEN Contribution(snap, i, j, t) ELSE <<0, 0>>,
              SnapshotFrom(snap, i, j + 1, t))

Snapshot(snap, i, t) == SnapshotFrom(snap, i, 1, t)

\* C15: the accumulation leaves every body as it is and writes no slot
\* other than those of the bodies; what it leaves in slot i and what is
\* integrated for body i is the sum over all j # i of the pair contribution
\* computed from the bodies as they were before the pass.
C15_SnapshotEquivalent ==
    [][/\ pc = "accumulate"
            => /\ bodies' = bodies
               /\ Len(acc') = Len(acc)
               /\ \A i \in 1..Len(acc) : i > Len(bodies) => acc'[i] = acc[i]
       /\ pc = "integrate"
            => \A i \in 1..Len(bodies) :
                  LET a == Snapshot(bodies, i, dt)
                      vel == VAdd(bodies[i].vel, VScale(a, dt))
                  IN /\ acc[i] = a
                     /\ bodies'[i].vel = vel
                     /\ bodies'[i].pos = VAdd(bodies[i].pos, VScale(vel, dt))]_vars

\* C15 witness: a pass over at least three moving bodies, one pair of them
\* overlapping, has given every body a different, non-zero acceleration.
C15_Witness ==
    /\ pc = "integrate" /\ dt > 0 /\ Len(bodies) >= 3 /\ hit # {}
    /\ \A i \in 1..Len(bodies) : acc[i] # <<0, 0>>
    /\ \A i, j \in 1..Len(bodies) : i # j => acc[i] # acc[j]
    /\ \E i, j \in 1..Len(bodies) : i # j /\ bodies[i].vel # bodies[j].vel

\* every slot of the accumulator sequence is zero
AllZero(a) == \A i \in 1..Len(a) : a[i] = <<0, 0>>

\* C16: when the accumulation pass of a tick starts every accumulator slot
\* is zero; the pass leaves in the slot of body i the sum of that tick for
\* that body and zero in the other slots; the integration uses the slot of
\* body i for body i and clears it, so that nothing is carried into the next
\* tick.
C16_NoCarryOver ==
    [][/\ pc = "accumulate"
            => /\ AllZero(acc)
               /\ \A i \in 1..Len(acc') :
                     acc'[i] = IF i <= Len(bodies) THEN Snapshot(bodies, i, dt')
                               ELSE <<0, 0>>
       /\ pc = "integrate"
            => /\ \A i \in 1..Len(bodies) :
                     bodies'[i].vel = VAdd(bodies[i].vel, VScale(acc[i], dt))
               /\ AllZero(acc')
       /\ pc \in {"input", "cull"} => AllZero(acc) /\ AllZero(acc')]_vars

\* C16 witness: after a culling left the accumulator longer than the body
\* sequence, a body committed in a later tick has been accumulated for and
\* integrated.
C16_Witness ==
    /\ pc = "cull" /\ Committed /\ dt > 0 /\ ticks >= 1
    /\ Len(acc) > Len(bodies)
    /\ bodies[Len(bodies)].vel # VSub(gesture[1].last, gesture[1].start)

\* C17: a pending spawn is outside the body sequence: creating and aiming it
\* leave bodies and accumulators alone, the accumulation with a spawn pending
\* is the sum over the bodies only, and accumulation, integration and
\* culling leave the pending spawn as it is.  In the input phase a pending
\* spawn keeps its position, mass and radius; with the button held its
\* velocity becomes pointer - position, with the button up it keeps its
\* velocity or is committed as it is.
C17_PendingIsInert ==
    [][/\ SpawnCreated => bodies' = bodies /\ acc' = acc
       /\ (has_value(new_body) /\ pc \in {"accumulate", "integrate", "cull"})
            => /\ new_body' = new_body
               /\ Len(bodies') <= Len(bodies)
               /\ pc = "accumulate"
                    => \A i \in 1..Len(bodies) :
                          acc'[i] = VAdd(acc[i], Snapshot(bodies, i, dt'))
       /\ (has_value(new_body) /\ pc = "input" /\ pc' # "closed")
            => IF has_value(new_body')
               THEN /\ new_body'[1].pos = new_body[1].pos
                    /\ new_body'[1].mass = new_body[1].mass
                    /\ new_body'[1].radius = new_body[1].radius
                    /\ new_body'[1].vel = IF prev_down'
                                          THEN VSub(mouse_pos', new_body[1].pos)
                                          ELSE new_body[1].vel
                    /\ prev_down' => bodies' = bodies /\ acc' = acc
               ELSE /\ ~prev_down'
                    /\ bodies' = Append(bodies, new_body[1])]_vars

\* C17 witness: a tick with dt > 0 has run its physics on at least two
\* bodies while a spawn created elsewhere is pending and aimed.
C17_Witness ==
    /\ pc = "cull" /\ dt > 0 /\ Len(bodies) >= 2
    /\ has_value(new_body) /\ has_value(gesture) /\ gesture[1].dragged
    /\ new_body[1].pos = gesture[1].start
    /\ new_body[1].vel = VSub(gesture[1].last, gesture[1].start)
    /\ new_body[1].vel # <<0, 0>>

\* C18: in every reachable state the accumulator sequence is at least as
\* long as the body sequence, so that acc[i] exists for every body index i.
C18_AccCoversBodies ==
    /\ Len(acc) >= Len(bodies)
    /\ \A i \in 1..Len(bodies) : i \in DOMAIN acc

\* C18 witness: the accumulation has run over at least three bodies, a spawn
\* committed in this tick included, after an earlier culling left the
\* accumulator sequence longer than the body sequence.
C18_Witness ==
    /\ pc = "integrate" /\ ticks >= 2
    /\ Len(bodies) >= 3
    /\ Len(acc) > Len(bodies)
    /\ Committed

\* C19: a release observed with the pointer over the reset button replaces
\* the bodies by a generated system of at least one body and the accumulators
\* by as many zeros, whatever their length was, and commits nothing (the
\* pending slot stays as it is); no other input step replaces the bodies: it
\* leaves them alone or appends the pending spawn, and a tick with the button
\* held over the reset button leaves bodies and accumulators as they are.
C19_ResetOnReleaseOnly ==
    [][/\ ResetStep
            => /\ pc' = "accumulate"
               /\ \E S \in Systems : bodies' = S
               /\ Len(bodies') >= 1
               /\ Len(acc') = Len(bodies')
               /\ \A i \in 1..Len(acc') : acc'[i] = <<0, 0>>
               /\ new_body' = new_body
       /\ (pc = "input" /\ pc' # "closed" /\ ~ResetStep)
            => \/ bodies' = bodies /\ acc' = acc
               \/ /\ has_value(new_body)
                  /\ bodies' = Append(bodies, new_body[1])
       /\ (pc = "input" /\ prev_down' /\ ~OffReset(mouse_pos'))
            => bodies' = bodies /\ acc' = acc]_vars

\* C19 witness: the input phase of a tick after the second has just reset the
\* system (only line 125 leaves the button state NONE with the pointer over
\* the button) while a spawn is pending, and the spawn is still pending.
C19_Witness ==
    /\ pc = "accumulate" /\ ticks >= 2 /\ ~prev_down
    /\ ~OffReset(mouse_pos) /\ reset_btn_state = "NONE"
    /\ has_value(new_body)
    /\ Len(acc) = Len(bodies) /\ bodies \in Systems

====
